---- MODULE Spec2Model ----
(***************************************************************************)
(* A model of lennyhub-rag:                                                *)
(*   - the parallel ingestion run of build_transcript_rag_parallel.py      *)
(*     (main, process_single_transcript, get_already_processed_docs);      *)
(*   - the provenance resolver and the query of query_with_sources.py      *)
(*     (load_chunk_metadata, extract_chunk_sources,                        *)
(*     query_with_detailed_sources);                                       *)
(*   - a search of the Streamlit app (streamlit_app.py query_rag_sync and  *)
(*     main, query_worker.py);                                             *)
(*   - the sequential build of setup_rag.py (main, build_rag).             *)
(*                                                                         *)
(* asyncio runs the tasks of a run on one thread: a task runs without      *)
(* interruption from one await to the next.  The awaits of a task are the  *)
(* semaphore (line 57), the insert call (line 74) and the counter lock     *)
(* (line 81); the model gives each of them a step of its own.              *)
(***************************************************************************)
EXTENDS Integers, Sequences, FiniteSets, TLC

(***************************************************************************)
(* Bounds of the model.                                                    *)
(***************************************************************************)
MaxDocs == 4       \* transcript files in ./data
MaxLimit == 3      \* CONCURRENT_LIMIT ranges over 1..MaxLimit
MaxCap == 3        \* MAX_TRANSCRIPTS ranges over 1..MaxCap
MaxSections == 2   \* delimiter-separated sections of a context
MaxChunks == 2     \* entries of the Chunk Index
MaxPassages == 3   \* passages handed to the grouping loop
MaxFiles == 11     \* transcript files setup_rag.py finds in ./data

\* sorted(transcript_dir.glob("*.txt")): file d is the d-th in sorted order,
\* and its doc_id is "transcript-<stem of d>", written d.
all_transcript_files == [d \in 1..MaxDocs |-> d]
Docs == 1..MaxDocs

\* The value of a task that has not returned yet.
NoResult == [kind |-> "none", ok |-> FALSE, name |-> 0]

VARIABLES
    \* the configuration and the environment of a run
    CONCURRENT_LIMIT,   \* line 32 (5 in the source; every value of 1..MaxLimit here)
    MAX_TRANSCRIPTS,    \* line 31 (23 in the source; every value of 1..MaxCap here)
    api_key,            \* os.getenv("OPENAI_API_KEY") is set
    qdrant_up,          \* the Qdrant server answers
    status_readable,    \* kv_store_doc_status.json parses as JSON
    hung,               \* the documents whose insert call, once made, never ends
    doc_status,         \* the persisted status table: doc -> "none" (no key) | status
    \* the process running main()
    run,                \* "first" | "second": the script is run twice
    main_pc,
    vector_storage,
    already_processed,
    transcript_files,
    total_to_process,
    processed_count,
    sem_value,          \* asyncio.Semaphore._value
    sem_waiters,        \* asyncio.Semaphore._waiters, FIFO
    lock,               \* the task holding asyncio.Lock, 0 when free
    pc,                 \* where each task is
    current,            \* the progress number a task printed
    task_result,        \* what each task returned
    results,            \* the list gather returned
    successful,
    failed,
    rag_closed,
    \* what the run did to the outside (history)
    insert_calls,       \* number of insert_content_list calls per doc
    insert_outcome,     \* "none" | "inflight" | "returned" | "raised"
    read_failed,        \* open()/read() of the transcript raised
    printed,            \* the [ERROR] line each task printed (line 89)
    admitted,           \* the documents in the order their tasks entered the
                        \* body of `async with semaphore`
    first_run,          \* what the previous run scheduled and inserted
    \* a call of extract_chunk_sources (query_with_sources.py)
    q_pc,               \* "idle" | "loaded" | "resolved" | "raised" | "grouped", or
                        \* where a call of query_with_detailed_sources is
    context,            \* the raw context string, a sequence of characters
    metadata,           \* what load_chunk_metadata returned
    chunks_info,        \* what extract_chunk_sources returned
    sources_map,        \* the dict of lines 169-174, as its items() in order
    \* a call of query_with_detailed_sources
    rag_storage,        \* the three side-table files of ./rag_storage
    gateway,            \* how the retrieval engine answers the two aquery calls
    q_locals,           \* the local names of lines 162-169 that are bound
    q_out,              \* what the call has printed
    q_rag_closed,       \* rag.close() was called (line 223)
    \* a search in the Streamlit app (streamlit_app.py, query_worker.py)
    ui_pc,              \* "idle" | "waiting" | "exited" | "done"
    question,           \* the text of the query box
    worker,             \* what the worker process meets when it runs
    proc,               \* what subprocess.run returned or raised
    ui_result,          \* the (response, error) query_rag_sync returned
    ui_shown,           \* what main displayed
    \* a run of setup_rag.py
    setup_pc,           \* "start" | "build" | "inserting" | "exit0" | "exit1"
    args,               \* the parsed command line
    data_files,         \* the number of ./data/*.txt files
    max_transcripts,
    setup_files,        \* all_files after line 204
    setup_inserted      \* the files insert_content_list returned for, in order

envVars == <<CONCURRENT_LIMIT, MAX_TRANSCRIPTS, api_key, qdrant_up, status_readable, hung>>
mainVars == <<main_pc, vector_storage, already_processed, transcript_files,
              total_to_process, results, successful, failed, rag_closed>>
semVars == <<sem_value, sem_waiters>>
taskVars == <<pc, current, task_result, processed_count, lock>>
histVars == <<insert_calls, insert_outcome, read_failed, printed, admitted>>
detailVars == <<rag_storage, gateway, q_locals, q_out, q_rag_closed>>
queryVars == <<q_pc, context, metadata, chunks_info, sources_map, detailVars>>
workerVars == <<ui_pc, question, worker, proc, ui_result, ui_shown>>
setupVars == <<setup_pc, args, data_files, max_transcripts, setup_files, setup_inserted>>
scriptVars == <<workerVars, setupVars>>
appVars == <<queryVars, scriptVars>>
vars == <<envVars, doc_status, run, mainVars, semVars, taskVars, histVars, first_run,
          appVars>>

(***************************************************************************)
(* Pure helpers.                                                           *)
(***************************************************************************)
Range(s) == {s[k] : k \in 1..Len(s)}

\* Faulty variant: the status table is never consulted.
NoneProcessed == {}

\* get_already_processed_docs: the keys of the status table, whatever their
\* status; the empty set when the file is missing or cannot be parsed.
get_already_processed_docs ==
    IF status_readable THEN {d \in Docs : doc_status[d] # "none"} ELSE {}

\* Faulty variant: every file is kept, whatever the snapshot holds.
FilterNothing(files, processed) == files

\* lines 172-176: the files whose doc_id is not in the snapshot, in order.
FilterUnprocessed(files, processed) ==
    SelectSeq(files, LAMBDA f : f \notin processed)

\* Faulty variant: the list is never cut.
LimitNothing(files, n) == files

\* lines 179-181: the first MAX_TRANSCRIPTS of them.
LimitToMax(files, n) ==
    IF Len(files) > n THEN SubSeq(files, 1, n) ELSE files

\* Faulty variant: the API key is never found missing.
ApiKeyNeverMissing == FALSE

\* line 99: not os.getenv("OPENAI_API_KEY")
ApiKeyMissing == ~api_key

\* get_lightrag_kwargs: Qdrant when it answers, else the fallback store.
get_lightrag_kwargs == IF qdrant_up THEN "QdrantVectorDBStorage" ELSE "NanoVectorDB"

\* line 86: return True, transcript_file.name
SuccessResult(d) == [kind |-> "tuple", ok |-> TRUE, name |-> d]

\* Faulty variant: the handler reports the failed document as a success.
ExceptHandlerReturnsTrue(d) == [kind |-> "tuple", ok |-> TRUE, name |-> d]

\* Faulty variant: no handler; the exception leaves the task and gather hands it
\* to main as the task's value (return_exceptions=True).
ExceptionPropagates(d) == [kind |-> "exception", ok |-> FALSE, name |-> d]

\* lines 88-90: except Exception: ... return False, transcript_file.name
ExceptHandler(d) == [kind |-> "tuple", ok |-> FALSE, name |-> d]

\* str(e) of the exception the handler caught: raised by open()/read(), or
\* by insert_content_list.
ReadError == "read error"
InsertError == "insert error"
NoLine == [name |-> 0, error |-> ""]

\* Faulty variant: the line names the file and leaves the error out.
ErrorLineWithoutText(d, e) == [name |-> d, error |-> ""]

\* line 89: print(f"[ERROR] ... {transcript_file.name}: {str(e)}")
ErrorLine(d, e) == [name |-> d, error |-> e]

\* Faulty variant: every tuple is counted, r[0] is not looked at.
CountTuples(rs) == Len(SelectSeq(rs, LAMBDA r : r.kind = "tuple"))

\* line 209: sum(1 for r in results if isinstance(r, tuple) and r[0])
RECURSIVE CountSuccessful(_)
CountSuccessful(rs) ==
    IF rs = <<>> THEN 0
    ELSE (IF Head(rs).kind = "tuple" /\ Head(rs).ok THEN 1 ELSE 0)
         + CountSuccessful(Tail(rs))

\* Faulty variant: the semaphore admits every task at once.
SemNeverLocked == FALSE

\* asyncio.Semaphore.locked()
SemLocked == sem_value = 0 \/ sem_waiters # <<>>

\* The tasks gather created, in the order of transcript_files.
Scheduled == Range(transcript_files)
InFlight == {d \in Docs : pc[d] = "inserting"}
\* Faulty variant: gather returns without waiting for the tasks.
SettledAlways == TRUE

\* line 206: every task gather was given has returned.
Settled == \A d \in Scheduled : pc[d] = "done"

\* lines 200-206: gather wraps the coroutines in tasks in list order, and the
\* event loop runs callbacks in the order they were scheduled.  Every task's
\* first step is scheduled before main suspends in gather, so a task that
\* suspended resumes only when the tasks behind it have taken their first
\* step; until then only the task that started last is running.
MayContinue(d) ==
    (\E e \in Scheduled : pc[e] = "new")
        => \A f \in Scheduled : f > d => pc[f] = "new"

\* Waiters handed a slot resume in the order they were woken, which is the
\* order of the queue.
ResumesNext(d) == \A e \in Scheduled : e < d => pc[e] # "woken"

(***************************************************************************)
(* The provenance resolver (query_with_sources.py).  Strings are sequences *)
(* of characters; a side-table is absent (its file does not exist) or a    *)
(* sequence of entries in the order json.load read them.                   *)
(***************************************************************************)
MIN_SECTION_LEN == 20
Delimiter == <<"-", "-", "-", "-", "-">>
Whitespace == {" ", "\n", "\t"}
Unknown == <<"U", "n", "k", "n", "o", "w", "n">>
NoChunk == 0                                   \* chunk_id None

Rep(c, n) == [k \in 1..n |-> c]

\* `sub in s` of Python strings.
Contains(sub, s) ==
    \E i \in 0..(Len(s) - Len(sub)) : SubSeq(s, i + 1, i + Len(sub)) = sub

\* str.find: the first index at which sub starts in s, 0 when there is none.
Find(sub, s) ==
    IF Contains(sub, s)
    THEN CHOOSE i \in 1..(Len(s) - Len(sub) + 1) :
            /\ SubSeq(s, i, i + Len(sub) - 1) = sub
            /\ \A j \in 1..(i - 1) : SubSeq(s, j, j + Len(sub) - 1) # sub
    ELSE 0

\* str.split(sep): cut at each occurrence of sep, found from left to right.
RECURSIVE Split(_, _)
Split(s, sep) ==
    LET i == Find(sep, s) IN
    IF i = 0 THEN <<s>>
    ELSE <<SubSeq(s, 1, i - 1)>> \o Split(SubSeq(s, i + Len(sep), Len(s)), sep)

\* str.lstrip / str.rstrip / str.strip
RECURSIVE LStrip(_)
LStrip(s) == IF s # <<>> /\ Head(s) \in Whitespace THEN LStrip(Tail(s)) ELSE s
RECURSIVE RStrip(_)
RStrip(s) ==
    IF s # <<>> /\ s[Len(s)] \in Whitespace THEN RStrip(SubSeq(s, 1, Len(s) - 1)) ELSE s

\* Faulty variant: the section is not trimmed.
NoStrip(s) == s

Strip(s) == RStrip(LStrip(s))

\* Path(file_path).stem: the last component of the path without its last
\* suffix (a leading dot starts no suffix).
LastSlash(p) ==
    IF \E i \in 1..Len(p) : p[i] = "/"
    THEN CHOOSE i \in 1..Len(p) : p[i] = "/" /\ \A j \in (i + 1)..Len(p) : p[j] # "/"
    ELSE 0
PathName(p) == SubSeq(p, LastSlash(p) + 1, Len(p))
Stem(p) ==
    LET name == PathName(p)
        dots == {i \in 2..Len(name) : name[i] = "."}
    IN
    IF dots = {} \/ name[Len(name)] = "." THEN name
    ELSE SubSeq(name, 1, (CHOOSE i \in dots : \A j \in dots : j <= i) - 1)

\* The result of a scan: it raised, or it ended with a source (Unknown
\* when nothing was found).
Raised == [raised |-> TRUE, source |-> Unknown]
Source(name) == [raised |-> FALSE, source |-> name]

\* lines 83-87: the first document of the Document Index whose `chunks`
\* holds the chunk gives the source: its file_name, else its doc_id.
RECURSIVE FindInFullDocs(_, _)
FindInFullDocs(chunk_id, items) ==
    IF items = <<>> THEN Source(Unknown)
    ELSE LET doc_data == Head(items) IN
         IF ~(doc_data.isdict /\ doc_data.has_chunks)
         THEN FindInFullDocs(chunk_id, Tail(items))
         ELSE IF ~doc_data.chunks_iterable THEN Raised
         ELSE IF chunk_id \in doc_data.chunks
              THEN Source(IF doc_data.has_file_name THEN doc_data.file_name
                          ELSE doc_data.key)
              ELSE FindInFullDocs(chunk_id, Tail(items))

\* lines 91-96: the first document of the Status Index whose `chunks_list`
\* holds the chunk gives the source: the stem of its file_path, else its
\* doc_id when the path is empty.
RECURSIVE FindInDocStatus(_, _)
FindInDocStatus(chunk_id, items) ==
    IF items = <<>> THEN Source(Unknown)
    ELSE LET doc_data == Head(items) IN
         IF ~(doc_data.isdict /\ doc_data.has_chunks)
         THEN FindInDocStatus(chunk_id, Tail(items))
         ELSE IF ~doc_data.chunks_iterable THEN Raised
         ELSE IF chunk_id \in doc_data.chunks
              THEN Source(IF doc_data.file_path # <<>> THEN Stem(doc_data.file_path)
                          ELSE doc_data.key)
              ELSE FindInDocStatus(chunk_id, Tail(items))

\* Faulty variant: the Document Index is not consulted.
ResolveSourceStatusOnly(chunk_id, md) ==
    IF md.doc_status.present
    THEN FindInDocStatus(chunk_id, md.doc_status.items)
    ELSE Source(Unknown)

\* lines 81-96: the source of a matched chunk: the Document Index first,
\* the Status Index when the source is still 'Unknown'.
ResolveSource(chunk_id, md) ==
    LET first == IF md.full_docs.present
                 THEN FindInFullDocs(chunk_id, md.full_docs.items)
                 ELSE Source(Unknown)
    IN  IF first.raised THEN Raised
        ELSE IF first.source = Unknown /\ md.doc_status.present
             THEN FindInDocStatus(chunk_id, md.doc_status.items)
             ELSE first

\* Faulty variant: every stored content is taken to match.
MatchesAlways(chunk_content, section) == TRUE

\* Faulty variant: the stored content must equal the section.
ExactMatch(chunk_content, section) == chunk_content = section

\* line 78: chunk_content in section or section in chunk_content
Matches(chunk_content, section) ==
    Contains(chunk_content, section) \/ Contains(section, chunk_content)

\* Faulty variant: the scan goes on past a matching entry that no side-table
\* resolves, and a later matching entry that is resolved is used.
RECURSIVE ScanChunksUntilResolved(_, _, _)
ScanChunksUntilResolved(section, items, md) ==
    IF items = <<>>
    THEN [raised |-> FALSE, content |-> section, source |-> Unknown, chunk_id |-> NoChunk]
    ELSE LET chunk_data == Head(items) IN
         IF ~(chunk_data.isdict /\ chunk_data.has_content)
         THEN ScanChunksUntilResolved(section, Tail(items), md)
         ELSE IF ~chunk_data.content_isstr
              THEN [raised |-> TRUE, content |-> section, source |-> Unknown,
                    chunk_id |-> NoChunk]
         ELSE IF Matches(chunk_data.content, section)
              THEN LET r == ResolveSource(chunk_data.key, md)
                       later == ScanChunksUntilResolved(section, Tail(items), md)
                   IN  IF ~r.raised /\ r.source = Unknown /\ ~later.raised
                          /\ later.source # Unknown
                       THEN later
                       ELSE [raised |-> r.raised, content |-> section,
                             source |-> r.source, chunk_id |-> chunk_data.key]
              ELSE ScanChunksUntilResolved(section, Tail(items), md)

\* lines 74-97: scan the Chunk Index in order; the first entry that is a
\* dict with a content matching the section gives the chunk_id and, through
\* the side-tables, the source; the scan stops there.  A content that is not
\* a string makes the `in` of line 78 raise TypeError.
RECURSIVE ScanChunks(_, _, _)
ScanChunks(section, items, md) ==
    IF items = <<>>
    THEN [raised |-> FALSE, content |-> section, source |-> Unknown, chunk_id |-> NoChunk]
    ELSE LET chunk_data == Head(items) IN
         IF ~(chunk_data.isdict /\ chunk_data.has_content)
         THEN ScanChunks(section, Tail(items), md)
         ELSE IF ~chunk_data.content_isstr
              THEN [raised |-> TRUE, content |-> section, source |-> Unknown,
                    chunk_id |-> NoChunk]
         ELSE IF Matches(chunk_data.content, section)
              THEN LET r == ResolveSource(chunk_data.key, md) IN
                   [raised |-> r.raised, content |-> section, source |-> r.source,
                    chunk_id |-> chunk_data.key]
              ELSE ScanChunks(section, Tail(items), md)

\* lines 66-99: the chunk_info of one section.
ChunkInfo(section, md) ==
    IF md.chunks.present
    THEN ScanChunks(section, md.chunks.items, md)
    ELSE [raised |-> FALSE, content |-> section, source |-> Unknown, chunk_id |-> NoChunk]

\* lines 61-99: the loop over the sections; an exception ends it.
RECURSIVE ResolveSections(_, _)
ResolveSections(sections, md) ==
    IF sections = <<>> THEN [raised |-> FALSE, info |-> <<>>]
    ELSE LET section == Strip(Head(sections)) IN
         IF section = <<>> \/ Len(section) < MIN_SECTION_LEN
         THEN ResolveSections(Tail(sections), md)
         ELSE LET one == ChunkInfo(section, md) IN
              IF one.raised THEN [raised |-> TRUE, info |-> <<>>]
              ELSE LET rest == ResolveSections(Tail(sections), md) IN
                   [raised |-> rest.raised,
                    info |-> IF rest.raised THEN <<>>
                             ELSE <<[content |-> one.content, source |-> one.source,
                                     chunk_id |-> one.chunk_id]>> \o rest.info]

\* extract_chunk_sources(context, metadata)
extract_chunk_sources(ctx, md) == ResolveSections(Split(ctx, Delimiter), md)

\* Faulty variant: a source seen for the first time goes to the front.
AddChunkInFront(groups, chunk) ==
    IF \E g \in 1..Len(groups) : groups[g].source = chunk.source
    THEN [g \in 1..Len(groups) |->
             IF groups[g].source = chunk.source
             THEN [groups[g] EXCEPT !.chunks = Append(@, chunk)]
             ELSE groups[g]]
    ELSE <<[source |-> chunk.source, chunks |-> <<chunk>>]>> \o groups

\* lines 171-174: one turn of the grouping loop.  A dict keeps its keys in
\* the order of their first insertion; the chunk is appended to the list of
\* its source, which is created, last, when the source is new.
AddChunk(groups, chunk) ==
    IF \E g \in 1..Len(groups) : groups[g].source = chunk.source
    THEN [g \in 1..Len(groups) |->
             IF groups[g].source = chunk.source
             THEN [groups[g] EXCEPT !.chunks = Append(@, chunk)]
             ELSE groups[g]]
    ELSE Append(groups, [source |-> chunk.source, chunks |-> <<chunk>>])

\* lines 169-174: sources_map, from the empty dict, over chunks_info in order.
RECURSIVE GroupInto(_, _)
GroupInto(groups, chunks) ==
    IF chunks = <<>> THEN groups
    ELSE GroupInto(AddChunk(groups, Head(chunks)), Tail(chunks))
GroupBySource(chunks) == GroupInto(<<>>, chunks)

\* A side-table file: missing, present but not JSON, or a JSON object.
MissingFile == [exists |-> FALSE, parses |-> FALSE, items |-> <<>>]
CorruptFile == [exists |-> TRUE, parses |-> FALSE, items |-> <<>>]
JsonFile(items) == [exists |-> TRUE, parses |-> TRUE, items |-> items]

\* load_chunk_metadata (lines 26-51): each file that exists is read with
\* json.load, which raises when the file is not JSON; no handler surrounds
\* it.  A file that does not exist leaves its key out of the metadata.
LoadTable(file) == IF file.exists THEN [present |-> TRUE, items |-> file.items]
                   ELSE [present |-> FALSE, items |-> <<>>]
load_chunk_metadata(storage) ==
    IF \E t \in {"chunks", "doc_status", "full_docs"} :
           storage[t].exists /\ ~storage[t].parses
    THEN [raised |-> TRUE,
          metadata |-> [chunks |-> LoadTable(MissingFile),
                        full_docs |-> LoadTable(MissingFile),
                        doc_status |-> LoadTable(MissingFile)]]
    ELSE [raised |-> FALSE,
          metadata |-> [chunks |-> LoadTable(storage.chunks),
                        full_docs |-> LoadTable(storage.full_docs),
                        doc_status |-> LoadTable(storage.doc_status)]]

(***************************************************************************)
(* The inputs the resolver is run on.                                      *)
(***************************************************************************)
TextA == Rep("a", MIN_SECTION_LEN)                 \* a passage
TextALong == TextA \o <<"a">>                      \* a passage that contains it
TextB == Rep("b", MIN_SECTION_LEN)                 \* another passage
TextBPadded == <<" ">> \o TextB \o <<"\n">>        \* as the engine pads it
TextShort == Rep("a", MIN_SECTION_LEN - 2) \o <<"-">>  \* below the minimum

SectionTexts == {TextA, TextALong, TextBPadded, TextShort}

RECURSIVE Join(_, _)
Join(parts, sep) ==
    IF Len(parts) = 1 THEN parts[1]
    ELSE parts[1] \o sep \o Join(Tail(parts), sep)

Contexts ==
    UNION {{Join(parts, Delimiter) : parts \in [1..n -> SectionTexts]} :
           n \in 1..MaxSections}

Absent == [present |-> FALSE, items |-> <<>>]
Table(items) == [present |-> TRUE, items |-> items]

\* Entries of kv_store_text_chunks.json.
Chunk(k, text) ==
    [key |-> k, isdict |-> TRUE, has_content |-> TRUE, content_isstr |-> TRUE,
     content |-> text]
ChunkNoContent(k) ==
    [key |-> k, isdict |-> TRUE, has_content |-> FALSE, content_isstr |-> FALSE,
     content |-> <<>>]
ChunkNullContent(k) ==
    [key |-> k, isdict |-> TRUE, has_content |-> TRUE, content_isstr |-> FALSE,
     content |-> <<>>]
ChunkEntries(k) ==
    {Chunk(k, TextA), Chunk(k, TextALong), Chunk(k, TextB), ChunkNoContent(k),
     ChunkNullContent(k)}
ChunkTables ==
    {Absent} \cup
    UNION {{Table(items) : items \in {f \in [1..n -> UNION {ChunkEntries(k) : k \in 1..n}] :
                                         \A k \in 1..n : f[k].key = k}} :
           n \in 1..MaxChunks}

\* Entries of kv_store_full_docs.json and kv_store_doc_status.json.
DocA == <<"A">>
DocB == <<"B">>
FileA == <<"A", ".", "t", "x", "t">>
PathA == <<"d", "/", "A", ".", "t", "x", "t">>
PathB == <<"d", ".", "d", "/", "B">>
Doc(id, chunks, named, name) ==
    [key |-> id, isdict |-> TRUE, has_chunks |-> TRUE, chunks_iterable |-> TRUE,
     chunks |-> chunks, has_file_name |-> named, file_name |-> name, file_path |-> name]
DocNullChunks(id) ==
    [key |-> id, isdict |-> TRUE, has_chunks |-> TRUE, chunks_iterable |-> FALSE,
     chunks |-> {}, has_file_name |-> FALSE, file_name |-> <<>>, file_path |-> <<>>]
DocNotDict(id) ==
    [key |-> id, isdict |-> FALSE, has_chunks |-> FALSE, chunks_iterable |-> FALSE,
     chunks |-> {}, has_file_name |-> FALSE, file_name |-> <<>>, file_path |-> <<>>]

FullDocsTables ==
    {Absent,
     Table(<<Doc(DocA, {1}, TRUE, FileA)>>),
     Table(<<Doc(DocA, {1}, FALSE, <<>>), Doc(DocB, {2}, FALSE, <<>>)>>),
     Table(<<Doc(DocB, {1, 2}, FALSE, <<>>), Doc(DocA, {1}, TRUE, FileA)>>),
     Table(<<DocNotDict(DocB), Doc(DocA, {2}, TRUE, Unknown)>>),
     Table(<<DocNullChunks(DocA)>>)}

DocStatusTables ==
    {Absent,
     Table(<<Doc(DocA, {1}, TRUE, PathA)>>),
     Table(<<Doc(DocB, {1, 2}, TRUE, PathB), Doc(DocA, {1}, TRUE, PathA)>>),
     Table(<<DocNotDict(DocA), Doc(DocB, {2}, TRUE, <<>>)>>),
     Table(<<DocNullChunks(DocB)>>)}

(***************************************************************************)
(* A search in the Streamlit app: main (streamlit_app.py 494-523) calls    *)
(* query_rag_sync, which runs query_worker.py in a process of its own and  *)
(* reads its standard output.  A Python string is a sequence of words; a   *)
(* value that may be None is a record.                                     *)
(***************************************************************************)
PyNone == [none |-> TRUE, text |-> <<>>]
PyStr(t) == [none |-> FALSE, text |-> t]
\* bool(v) of None or a string
Truthy(v) == ~v.none /\ v.text # <<>>

\* A line of the worker's standard output: whether it starts with "{" and
\* ends with "}", whether json.loads accepts it, and the dict it then gives.
NoData == [success |-> FALSE, response |-> PyNone, error |-> PyNone]
LogLine == [braces |-> FALSE, json |-> FALSE, data |-> NoData]
BraceLine == [braces |-> TRUE, json |-> FALSE, data |-> NoData]
\* json.dumps of a dict of a bool and two values that are None or strings,
\* printed on one line; json.loads gives the dict back.
JsonLine(data) == [braces |-> TRUE, json |-> TRUE, data |-> data]

\* What the worker process meets: rag.aquery returns a response; or an
\* Exception is raised inside run_query, with str(e) as message; or the
\* process dies outside run_query (import error, signal, a response that
\* json.dumps cannot serialize); or it does not
\* end within the timeout; or it exits with status 0 having printed
\* something else than its result.
Workers ==
    [kind : {"returns"}, response : {PyStr(<<"answer">>), PyStr(<<>>), PyNone},
     message : {<<>>}, stderr : {<<>>}, stdout : {<<>>, <<LogLine>>}]
    \cup
    [kind : {"raises"}, response : {PyNone}, message : {<<"boom">>, <<>>},
     stderr : {<<>>}, stdout : {<<>>, <<LogLine>>}]
    \cup
    [kind : {"dies"}, response : {PyNone}, message : {<<>>},
     stderr : {<<"Traceback">>, <<"\n">>, <<>>}, stdout : {<<>>}]
    \cup
    [kind : {"hangs"}, response : {PyNone}, message : {<<>>}, stderr : {<<>>},
     stdout : {<<>>}]
    \cup
    [kind : {"prints"}, response : {PyNone}, message : {<<>>}, stderr : {<<>>},
     stdout : {<<>>, <<LogLine>>, <<BraceLine>>}]

\* query_worker.run_query (lines 19-78): the dict it returns.
run_query(w) ==
    IF w.kind = "returns"
    THEN [success |-> TRUE, response |-> w.response, error |-> PyNone]
    ELSE [success |-> FALSE, response |-> PyNone, error |-> PyStr(w.message)]

\* The worker process as subprocess.run sees it (query_worker.main, lines
\* 81-94): the log lines, then the result printed as JSON, status 0.
NoProc == [timeout |-> FALSE, returncode |-> 0, stdout |-> <<>>, stderr |-> <<>>]
RunWorker(w) ==
    IF w.kind = "hangs"
    THEN [timeout |-> TRUE, returncode |-> 0, stdout |-> <<>>, stderr |-> <<>>]
    ELSE IF w.kind = "dies"
    THEN [timeout |-> FALSE, returncode |-> 1, stdout |-> <<>>, stderr |-> w.stderr]
    ELSE IF w.kind = "prints"
    THEN [timeout |-> FALSE, returncode |-> 0, stdout |-> w.stdout, stderr |-> <<>>]
    ELSE [timeout |-> FALSE, returncode |-> 0,
          stdout |-> Append(w.stdout, JsonLine(run_query(w))), stderr |-> <<>>]

\* lines 333-341: the last line in braces, else the last line.
JsonLineOf(stdout) ==
    LET braced == {i \in 1..Len(stdout) : stdout[i].braces} IN
    IF braced # {} THEN stdout[CHOOSE i \in braced : \A j \in braced : j <= i]
    ELSE stdout[Len(stdout)]

NoUiResult == [response |-> PyNone, error |-> PyNone]
Failure(message) == [response |-> PyNone, error |-> PyStr(message)]

\* query_rag_sync (lines 304-355), from what subprocess.run gave.
query_rag_sync(p) ==
    IF p.timeout THEN Failure(<<"Query timed out after 5 minutes">>)
    ELSE IF p.returncode # 0
    THEN Failure(<<"Worker process failed: ">> \o
                 (IF p.stderr # <<>> THEN Strip(p.stderr) ELSE <<"Unknown error">>))
    ELSE IF p.stdout = <<>> THEN Failure(<<"No output from worker process">>)
    ELSE LET json_line == JsonLineOf(p.stdout) IN
         IF ~json_line.json THEN Failure(<<"Failed to parse worker response: ">>)
         ELSE IF json_line.data.success
              THEN [response |-> json_line.data.response, error |-> PyNone]
              ELSE [response |-> PyNone, error |-> json_line.data.error]

\* lines 507-514: `if error:` shows the error, else the answer is shown.
Display(result) == IF Truthy(result.error) THEN "error" ELSE "answer"

WorkerIdle ==
    /\ ui_pc = "idle"
    /\ question = <<>>
    /\ worker = CHOOSE w \in Workers : w.kind = "hangs"
    /\ proc = NoProc
    /\ ui_result = NoUiResult
    /\ ui_shown = "nothing"

(***************************************************************************)
(* setup_rag.py: main parses --quick and --max, and build_rag inserts the  *)
(* transcripts one after the other.  An int that may be None is a record.  *)
(***************************************************************************)
QUICK_LIMIT == 10
NoInt == [none |-> TRUE, n |-> 0]
PyInt(n) == [none |-> FALSE, n |-> n]
\* bool(v) of None or an int
TruthyInt(v) == ~v.none /\ v.n # 0

\* lines 273-277: max_transcripts from the parsed arguments.
DetermineMax(a) ==
    IF a.quick THEN PyInt(QUICK_LIMIT)
    ELSE IF TruthyInt(a.max) THEN a.max
    ELSE NoInt

\* files[:n] of a list
SlicePrefix(files, n) ==
    IF n >= 0 THEN SubSeq(files, 1, IF n < Len(files) THEN n ELSE Len(files))
    ELSE SubSeq(files, 1, IF Len(files) + n > 0 THEN Len(files) + n ELSE 0)

\* lines 201-204: the sorted files, cut when max_transcripts is truthy.
FilesToProcess(nfiles, m) ==
    LET all_files == [k \in 1..nfiles |-> k] IN
    IF TruthyInt(m) THEN SlicePrefix(all_files, m.n) ELSE all_files

SetupIdle ==
    /\ setup_pc = "idle"
    /\ args = [quick |-> FALSE, max |-> NoInt]
    /\ data_files = 0
    /\ max_transcripts = NoInt
    /\ setup_files = <<>>
    /\ setup_inserted = <<>>

ScriptsIdle == WorkerIdle /\ SetupIdle

\* No call of query_with_detailed_sources is under way.
DetailIdle ==
    /\ rag_storage = [chunks |-> MissingFile, full_docs |-> MissingFile,
                      doc_status |-> MissingFile]
    /\ gateway = [context_raises |-> FALSE, context |-> <<>>, answer_raises |-> FALSE]
    /\ q_locals = {}
    /\ q_out = {}
    /\ q_rag_closed = FALSE

QueryIdle ==
    /\ q_pc = "idle"
    /\ context = <<>>
    /\ metadata = [chunks |-> Absent, full_docs |-> Absent, doc_status |-> Absent]
    /\ chunks_info = <<>>
    /\ sources_map = <<>>
    /\ DetailIdle

(***************************************************************************)
(* Init: the script has been started; module-level globals are set.        *)
(***************************************************************************)
ProcessInit ==
    /\ main_pc = "start"
    /\ vector_storage = "unset"
    /\ already_processed = {}
    /\ transcript_files = <<>>
    /\ total_to_process = 0
    /\ processed_count = 0
    /\ sem_value = 0
    /\ sem_waiters = <<>>
    /\ lock = 0
    /\ pc = [d \in Docs |-> "new"]
    /\ current = [d \in Docs |-> 0]
    /\ task_result = [d \in Docs |-> NoResult]
    /\ results = <<>>
    /\ successful = 0
    /\ failed = 0
    /\ rag_closed = FALSE
    /\ insert_calls = [d \in Docs |-> 0]
    /\ insert_outcome = [d \in Docs |-> "none"]
    /\ read_failed = [d \in Docs |-> FALSE]
    /\ printed = [d \in Docs |-> NoLine]
    /\ admitted = <<>>

Init ==
    /\ hung = {}
    /\ CONCURRENT_LIMIT \in 1..MaxLimit
    /\ MAX_TRANSCRIPTS \in 1..MaxCap
    /\ api_key \in BOOLEAN
    /\ qdrant_up \in BOOLEAN
    /\ status_readable \in BOOLEAN
    \* a table that cannot be parsed is one that had entries
    /\ doc_status \in IF status_readable
                      THEN [Docs -> {"none", "processed"}]
                      ELSE {[d \in Docs |-> "processed"]}
    /\ run = "first"
    /\ first_run = [scheduled |-> {}, unprocessed |-> {}, returned |-> {}]
    /\ ProcessInit
    /\ QueryIdle
    /\ ScriptsIdle

(***************************************************************************)
(* main(), up to the gather.                                               *)
(***************************************************************************)
\* lines 99-104: no API key, return before anything else.
MainNoApiKey ==
    /\ main_pc = "start"
    /\ ApiKeyMissing
    /\ main_pc' = "no_api_key"
    /\ UNCHANGED <<envVars, doc_status, run, vector_storage, already_processed,
                   transcript_files, total_to_process, results, successful, failed,
                   rag_closed, semVars, taskVars, histVars, first_run, appVars>>

\* Faulty variant: an empty list is not noticed.
NeverNothing(n) == FALSE

\* line 185: if total_to_process == 0
NothingToProcess(n) == n = 0

\* lines 106-197: configure, read the snapshot, filter, cap, and either
\* return (nothing to do) or create the semaphore and the tasks.
MainSetup ==
    /\ main_pc = "start"
    /\ ~ApiKeyMissing
    /\ vector_storage' = get_lightrag_kwargs
    /\ already_processed' = get_already_processed_docs
    /\ transcript_files' =
           LimitToMax(FilterUnprocessed(all_transcript_files, already_processed'),
                      MAX_TRANSCRIPTS)
    /\ total_to_process' = Len(transcript_files')
    /\ IF NothingToProcess(total_to_process')
       THEN /\ rag_closed' = TRUE
            /\ main_pc' = "all_processed"
            /\ UNCHANGED sem_value
       ELSE /\ sem_value' = CONCURRENT_LIMIT
            /\ main_pc' = "gathering"
            /\ UNCHANGED rag_closed
    /\ UNCHANGED <<envVars, doc_status, run, results, successful, failed,
                   sem_waiters, taskVars, histVars, first_run, appVars>>

(***************************************************************************)
(* process_single_transcript.                                              *)
(***************************************************************************)
\* Faulty variant: the slot goes back to the pool but the first waiter is not woken.
SemReleaseNoWake(d, val) ==
    /\ pc' = [pc EXCEPT ![d] = "done"]
    /\ sem_value' = val + 1
    /\ UNCHANGED sem_waiters

\* Faulty variant: the task returns without giving its slot back.
SemReleaseKeepsSlot(d, val) ==
    /\ pc' = [pc EXCEPT ![d] = "done"]
    /\ sem_value' = val
    /\ UNCHANGED sem_waiters

\* Faulty variant: the slot goes to the waiter that queued last.
SemReleaseWakesLast(d, val) ==
    IF sem_waiters # <<>>
    THEN /\ pc' = [pc EXCEPT ![d] = "done",
                             ![sem_waiters[Len(sem_waiters)]] = "woken"]
         /\ sem_waiters' = SubSeq(sem_waiters, 1, Len(sem_waiters) - 1)
         /\ sem_value' = val
    ELSE /\ pc' = [pc EXCEPT ![d] = "done"]
         /\ sem_value' = val + 1
         /\ UNCHANGED sem_waiters

\* asyncio.Semaphore.release(), called by `async with` on every exit of the
\* body: the slot goes to the first waiter if there is one (the value is
\* raised and lowered again on the waiter's behalf), else back to the pool.
\* val is the semaphore's value while task d holds its slot.
SemRelease(d, val) ==
    IF sem_waiters # <<>>
    THEN /\ pc' = [pc EXCEPT ![d] = "done", ![Head(sem_waiters)] = "woken"]
         /\ sem_waiters' = Tail(sem_waiters)
         /\ sem_value' = val
    ELSE /\ pc' = [pc EXCEPT ![d] = "done"]
         /\ sem_value' = val + 1
         /\ UNCHANGED sem_waiters

\* Faulty variant: the insert is awaited twice for a document.
CallInsertTwice(calls, d) == [calls EXCEPT ![d] = @ + 2]

\* lines 74-78: one call of rag.insert_content_list for the document.
CallInsert(calls, d) == [calls EXCEPT ![d] = @ + 1]

\* lines 58-78, from the admission to the await of the insert: read the
\* file (open/read may raise, which the handler of line 88 catches), then
\* call insert_content_list.
TaskBody(d, val) ==
    /\ admitted' = Append(admitted, d)
    /\ \/ /\ read_failed' = [read_failed EXCEPT ![d] = TRUE]
          /\ printed' = [printed EXCEPT ![d] = ErrorLine(d, ReadError)]
          /\ task_result' = [task_result EXCEPT ![d] = ExceptHandler(d)]
          /\ SemRelease(d, val)
          /\ UNCHANGED <<insert_calls, insert_outcome>>
       \/ /\ insert_calls' = CallInsert(insert_calls, d)
          /\ insert_outcome' = [insert_outcome EXCEPT ![d] = "inflight"]
          /\ pc' = [pc EXCEPT ![d] = "inserting"]
          /\ sem_value' = val
          /\ UNCHANGED <<sem_waiters, read_failed, printed, task_result>>

\* The first step of a task: the event loop starts the tasks in the order
\* gather received them.  `async with semaphore` takes a slot at once when
\* the semaphore is not locked, else queues the task.
TaskStart(d) ==
    /\ main_pc = "gathering"
    /\ \E k \in 1..Len(transcript_files) :
          /\ transcript_files[k] = d
          /\ \A j \in 1..(k - 1) : pc[transcript_files[j]] # "new"
    /\ pc[d] = "new"
    /\ IF SemLocked
       THEN /\ sem_waiters' = Append(sem_waiters, d)
            /\ pc' = [pc EXCEPT ![d] = "waiting"]
            /\ UNCHANGED <<sem_value, task_result, histVars>>
       ELSE TaskBody(d, sem_value - 1)
    /\ UNCHANGED <<envVars, doc_status, run, mainVars, current, processed_count,
                   lock, first_run, appVars>>

\* A waiter that was handed a slot resumes and enters the body.
TaskAdmitted(d) ==
    /\ pc[d] = "woken"
    /\ MayContinue(d)
    /\ ResumesNext(d)
    /\ TaskBody(d, sem_value)
    /\ UNCHANGED <<envVars, doc_status, run, mainVars, current, processed_count,
                   lock, first_run, appVars>>

\* The insert operation (external): returns normally, having recorded the
\* document under its doc_id in the status table.
InsertReturns(d) ==
    /\ pc[d] = "inserting"
    /\ d \notin hung
    /\ MayContinue(d)
    /\ insert_outcome' = [insert_outcome EXCEPT ![d] = "returned"]
    /\ doc_status' = [doc_status EXCEPT ![d] = "processed"]
    /\ pc' = [pc EXCEPT ![d] = "locking"]
    /\ UNCHANGED <<envVars, run, mainVars, semVars, current, task_result,
                   processed_count, lock, insert_calls, read_failed, printed,
                   admitted, first_run, appVars>>

\* The insert operation raises; it may or may not have left a failed entry
\* in the status table.  Lines 88-90 catch the exception, and leaving the
\* `async with` releases the slot.
InsertRaises(d) ==
    /\ pc[d] = "inserting"
    /\ d \notin hung
    /\ MayContinue(d)
    /\ insert_outcome' = [insert_outcome EXCEPT ![d] = "raised"]
    /\ \E st \in {doc_status[d], "failed"} :
          doc_status' = [doc_status EXCEPT ![d] = st]
    /\ printed' = [printed EXCEPT ![d] = ErrorLine(d, InsertError)]
    /\ task_result' = [task_result EXCEPT ![d] = ExceptHandler(d)]
    /\ SemRelease(d, sem_value)
    /\ UNCHANGED <<envVars, run, mainVars, current, processed_count, lock,
                   insert_calls, read_failed, admitted, first_run, appVars>>

\* Faulty variant: the lock admits a task while another holds it.
LockAlwaysFree == TRUE

\* asyncio.Lock: acquire() goes through only when no task holds the lock.
LockFree == lock = 0

\* line 81: async with lock
AcquireLock(d) ==
    /\ pc[d] = "locking"
    /\ MayContinue(d)
    /\ LockFree
    /\ lock' = d
    /\ pc' = [pc EXCEPT ![d] = "locked"]
    /\ UNCHANGED <<envVars, doc_status, run, mainVars, semVars, current,
                   task_result, processed_count, histVars, first_run, appVars>>

\* Faulty variant: the increment is lost.
IncrementLost(n) == n

\* line 82: processed_count += 1
Increment(n) == n + 1

\* lines 82-86: increment and read under the lock, release it, print,
\* return True; leaving the `async with semaphore` releases the slot.
TaskSucceeds(d) ==
    /\ pc[d] = "locked"
    /\ MayContinue(d)
    /\ processed_count' = Increment(processed_count)
    /\ current' = [current EXCEPT ![d] = processed_count']
    /\ lock' = 0
    /\ task_result' = [task_result EXCEPT ![d] = SuccessResult(d)]
    /\ SemRelease(d, sem_value)
    /\ UNCHANGED <<envVars, doc_status, run, mainVars, histVars, first_run, appVars>>

(***************************************************************************)
(* main(), after the gather.                                               *)
(***************************************************************************)
\* line 206: gather returns once every task has returned, with the tasks'
\* values in the order of the tasks.
Gathered == [k \in 1..Len(transcript_files) |-> task_result[transcript_files[k]]]

\* lines 206-226: statistics, report, close.
MainReport ==
    /\ main_pc = "gathering"
    /\ Settled
    /\ results' = Gathered
    /\ successful' = CountSuccessful(results')
    /\ failed' = total_to_process - successful'
    /\ rag_closed' = TRUE
    /\ main_pc' = "reported"
    /\ UNCHANGED <<envVars, doc_status, run, vector_storage, already_processed,
                   transcript_files, total_to_process, semVars, taskVars, histVars,
                   first_run, appVars>>

\* The script is run again: a new process, module globals as at import,
\* the status table as the previous run left it.
Rerun ==
    /\ main_pc \in {"no_api_key", "all_processed", "reported"}
    /\ run = "first"
    /\ run' = "second"
    /\ first_run' = [scheduled |-> Scheduled,
                     unprocessed |-> Range(FilterUnprocessed(all_transcript_files,
                                                            already_processed)),
                     returned |-> {d \in Docs : insert_outcome[d] = "returned"}]
    /\ main_pc' = "start"
    /\ vector_storage' = "unset"
    /\ already_processed' = {}
    /\ transcript_files' = <<>>
    /\ total_to_process' = 0
    /\ processed_count' = 0
    /\ sem_value' = 0
    /\ sem_waiters' = <<>>
    /\ lock' = 0
    /\ pc' = [d \in Docs |-> "new"]
    /\ current' = [d \in Docs |-> 0]
    /\ task_result' = [d \in Docs |-> NoResult]
    /\ results' = <<>>
    /\ successful' = 0
    /\ failed' = 0
    /\ rag_closed' = FALSE
    /\ insert_calls' = [d \in Docs |-> 0]
    /\ insert_outcome' = [d \in Docs |-> "none"]
    /\ read_failed' = [d \in Docs |-> FALSE]
    /\ printed' = [d \in Docs |-> NoLine]
    /\ admitted' = <<>>
    /\ UNCHANGED <<envVars, doc_status, appVars>>

TaskStep(d) ==
    \/ TaskStart(d)
    \/ TaskAdmitted(d)
    \/ InsertReturns(d)
    \/ InsertRaises(d)
    \/ AcquireLock(d)
    \/ TaskSucceeds(d)

\* One run of the script.
RunNext ==
    \/ MainNoApiKey
    \/ MainSetup
    \/ \E d \in Docs : TaskStep(d)
    \/ MainReport

Next ==
    \/ RunNext
    \/ Rerun

Spec == Init /\ [][Next]_vars

(***************************************************************************)
(* A query: load_chunk_metadata has returned the side-tables, the          *)
(* retrieval engine has returned a context, and extract_chunk_sources is   *)
(* applied to them (line 166).  No ingestion runs meanwhile.               *)
(***************************************************************************)
SchedulerAtRest ==
    /\ hung = {}
    /\ CONCURRENT_LIMIT = 1
    /\ MAX_TRANSCRIPTS = 1
    /\ status_readable = TRUE
    /\ doc_status = [d \in Docs |-> "none"]
    /\ run = "first"
    /\ first_run = [scheduled |-> {}, unprocessed |-> {}, returned |-> {}]
    /\ ProcessInit

SchedulerIdle ==
    /\ api_key = TRUE
    /\ qdrant_up = TRUE
    /\ SchedulerAtRest

QueryInit ==
    /\ SchedulerIdle
    /\ q_pc = "loaded"
    /\ context \in Contexts
    /\ metadata \in [chunks : ChunkTables, full_docs : FullDocsTables,
                     doc_status : DocStatusTables]
    /\ chunks_info = <<>>
    /\ sources_map = <<>>
    /\ DetailIdle
    /\ ScriptsIdle

\* line 166: chunks_info = extract_chunk_sources(context, metadata)
ExtractChunkSources ==
    /\ q_pc = "loaded"
    /\ LET r == extract_chunk_sources(context, metadata) IN
          /\ q_pc' = IF r.raised THEN "raised" ELSE "resolved"
          /\ chunks_info' = r.info
    /\ UNCHANGED <<envVars, doc_status, run, mainVars, semVars, taskVars, histVars,
                   first_run, context, metadata, sources_map, detailVars, scriptVars>>

QueryNext == ExtractChunkSources

QuerySpec == QueryInit /\ [][QueryNext]_vars

(***************************************************************************)
(* The grouping loop of lines 168-174 on its own, over every sequence of   *)
(* up to MaxPassages resolved passages.                                    *)
(***************************************************************************)
ResolvedPassages ==
    {[content |-> c, source |-> src, chunk_id |-> IF src = Unknown THEN NoChunk ELSE 1] :
        c \in {TextA, TextB}, src \in {DocA, DocB, Unknown}}

GroupInit ==
    /\ SchedulerIdle
    /\ q_pc = "resolved"
    /\ context = <<>>
    /\ metadata = [chunks |-> Absent, full_docs |-> Absent, doc_status |-> Absent]
    /\ chunks_info \in UNION {[1..n -> ResolvedPassages] : n \in 0..MaxPassages}
    /\ sources_map = <<>>
    /\ DetailIdle
    /\ ScriptsIdle

GroupPassages ==
    /\ q_pc = "resolved"
    /\ sources_map' = GroupBySource(chunks_info)
    /\ q_pc' = "grouped"
    /\ UNCHANGED <<envVars, doc_status, run, mainVars, semVars, taskVars, histVars,
                   first_run, context, metadata, chunks_info, detailVars, scriptVars>>

GroupNext == GroupPassages

GroupSpec == GroupInit /\ [][GroupNext]_vars

(***************************************************************************)
(* query_with_detailed_sources, a whole call: the API key check, the load  *)
(* of the side-tables, step 1 (retrieve, resolve, group, print), step 2    *)
(* (generate the answer), the summary and the close.                       *)
(***************************************************************************)
ChunkFiles ==
    {MissingFile, CorruptFile} \cup {JsonFile(<<entry>>) : entry \in ChunkEntries(1)}
FullDocsFiles ==
    {MissingFile, CorruptFile,
     JsonFile(<<Doc(DocA, {1}, TRUE, FileA)>>),
     JsonFile(<<DocNullChunks(DocA)>>)}
DocStatusFiles ==
    {MissingFile, CorruptFile, JsonFile(<<Doc(DocB, {1}, TRUE, PathB)>>)}
\* What the engine returns for only_need_context: nothing, or a context.
Gateways ==
    [context_raises : BOOLEAN, context : {<<>>} \cup Contexts, answer_raises : BOOLEAN]

DetailInit ==
    /\ api_key \in BOOLEAN
    /\ qdrant_up = TRUE
    /\ SchedulerAtRest
    /\ q_pc = "called"
    /\ rag_storage \in [chunks : ChunkFiles, full_docs : FullDocsFiles,
                         doc_status : DocStatusFiles]
    /\ gateway \in Gateways
    /\ context = <<>>
    /\ metadata = [chunks |-> Absent, full_docs |-> Absent, doc_status |-> Absent]
    /\ chunks_info = <<>>
    /\ sources_map = <<>>
    /\ q_locals = {}
    /\ q_out = {}
    /\ q_rag_closed = FALSE
    /\ ScriptsIdle

schedulerVars ==
    <<envVars, doc_status, run, mainVars, semVars, taskVars, histVars, first_run>>
\* what a call of query_with_detailed_sources leaves alone
outsideQuery == <<schedulerVars, scriptVars>>

\* lines 108-112: no API key, print and return.
DetailNoApiKey ==
    /\ q_pc = "called"
    /\ ~api_key
    /\ q_out' = q_out \cup {"no_api_key"}
    /\ q_pc' = "returned"
    /\ UNCHANGED <<outsideQuery, context, metadata, chunks_info, sources_map,
                   rag_storage, gateway, q_locals, q_rag_closed>>

\* lines 114-149: build the RAG, load the side-tables.  An exception of
\* load_chunk_metadata is not handled: it ends the call.
DetailLoad ==
    /\ q_pc = "called"
    /\ api_key
    /\ LET r == load_chunk_metadata(rag_storage) IN
          /\ q_pc' = IF r.raised THEN "exception" ELSE "step1"
          /\ metadata' = r.metadata
    /\ UNCHANGED <<outsideQuery, context, chunks_info, sources_map,
                   rag_storage, gateway, q_locals, q_out, q_rag_closed>>

\* lines 202-205: except Exception: print the error; step 2 follows.
RetrievalErrorHandler(out) ==
    [pc |-> "step2", out |-> out \cup {"Error retrieving sources"}]

\* lines 159-205: the context-only aquery (it may raise), then, for a
\* context that is not empty, extract_chunk_sources (it may raise), the
\* grouping and the printing.  A name is bound when its assignment is
\* reached.
DetailRetrieve ==
    /\ q_pc = "step1"
    /\ IF gateway.context_raises
       THEN /\ q_pc' = RetrievalErrorHandler(q_out).pc
            /\ q_out' = RetrievalErrorHandler(q_out).out
            /\ UNCHANGED <<context, chunks_info, sources_map, q_locals>>
       ELSE /\ context' = gateway.context
            /\ IF context' = <<>>
               THEN /\ q_locals' = q_locals \cup {"context"}
                    /\ q_out' = q_out \cup {"No context retrieved."}
                    /\ q_pc' = "step2"
                    /\ UNCHANGED <<chunks_info, sources_map>>
               ELSE LET r == extract_chunk_sources(context', metadata) IN
                    IF r.raised
                    THEN /\ q_locals' = q_locals \cup {"context"}
                         /\ q_pc' = RetrievalErrorHandler(q_out).pc
                         /\ q_out' = RetrievalErrorHandler(q_out).out
                         /\ UNCHANGED <<chunks_info, sources_map>>
                    ELSE /\ chunks_info' = r.info
                         /\ sources_map' = GroupBySource(r.info)
                         /\ q_locals' = q_locals \cup {"context", "chunks_info", "sources_map"}
                         /\ q_out' = q_out \cup {"sources"}
                         /\ q_pc' = "step2"
    /\ UNCHANGED <<outsideQuery, metadata, rag_storage, gateway, q_rag_closed>>

\* lines 208-217: the answer is generated and printed, or its error is.
DetailAnswer ==
    /\ q_pc = "step2"
    /\ q_out' = q_out \cup {IF gateway.answer_raises THEN "Error generating answer"
                             ELSE "answer"}
    /\ q_pc' = "summary"
    /\ UNCHANGED <<outsideQuery, context, metadata, chunks_info, sources_map,
                   rag_storage, gateway, q_locals, q_rag_closed>>

\* lines 220-223: `if context:` reads the local name context, and the
\* summary line reads chunks_info and sources_map; reading a local name
\* that was never bound raises UnboundLocalError, which nothing handles.
\* Otherwise the RAG is closed and the call returns.
DetailSummary ==
    /\ q_pc = "summary"
    /\ IF "context" \notin q_locals
       THEN /\ q_pc' = "exception"
            /\ UNCHANGED <<q_out, q_rag_closed>>
       ELSE IF context # <<>> /\ ~({"chunks_info", "sources_map"} \subseteq q_locals)
       THEN /\ q_pc' = "exception"
            /\ UNCHANGED <<q_out, q_rag_closed>>
       ELSE /\ q_out' = IF context # <<>> THEN q_out \cup {"summary"} ELSE q_out
            /\ q_rag_closed' = TRUE
            /\ q_pc' = "returned"
    /\ UNCHANGED <<outsideQuery, context, metadata, chunks_info, sources_map,
                   rag_storage, gateway, q_locals>>

DetailNext ==
    \/ DetailNoApiKey
    \/ DetailLoad
    \/ DetailRetrieve
    \/ DetailAnswer
    \/ DetailSummary

DetailSpec == DetailInit /\ [][DetailNext]_vars

(***************************************************************************)
(* A search in the Streamlit app.                                          *)
(***************************************************************************)
WorkerInit ==
    /\ api_key \in BOOLEAN
    /\ qdrant_up \in BOOLEAN
    /\ SchedulerAtRest
    /\ QueryIdle
    /\ SetupIdle
    /\ ui_pc = "idle"
    /\ question \in {<<>>, <<"what">>}
    /\ worker \in Workers
    /\ proc = NoProc
    /\ ui_result = NoUiResult
    /\ ui_shown = "nothing"

\* lines 494-503: the Search button was pressed with a question in the box:
\* Qdrant must be running and the API key set, then query_rag_sync starts
\* the worker process (line 314).
UiSearch ==
    /\ ui_pc = "idle"
    /\ question # <<>>
    /\ IF ~qdrant_up
       THEN ui_shown' = "Qdrant is not running" /\ ui_pc' = "done"
       ELSE IF ~api_key
       THEN ui_shown' = "API key is not configured" /\ ui_pc' = "done"
       ELSE ui_pc' = "waiting" /\ UNCHANGED ui_shown
    /\ UNCHANGED <<schedulerVars, queryVars, setupVars, question, worker, proc, ui_result>>

\* The worker process ends, or the timeout of line 318 expires.
WorkerExits ==
    /\ ui_pc = "waiting"
    /\ proc' = RunWorker(worker)
    /\ ui_pc' = "exited"
    /\ UNCHANGED <<schedulerVars, queryVars, setupVars, question, worker, ui_result,
                   ui_shown>>

\* lines 322-355 and 503-514: query_rag_sync returns and main displays.
UiReceive ==
    /\ ui_pc = "exited"
    /\ ui_result' = query_rag_sync(proc)
    /\ ui_shown' = Display(ui_result')
    /\ ui_pc' = "done"
    /\ UNCHANGED <<schedulerVars, queryVars, setupVars, question, worker, proc>>

WorkerNext ==
    \/ UiSearch
    \/ WorkerExits
    \/ UiReceive

WorkerSpec == WorkerInit /\ [][WorkerNext]_vars

(***************************************************************************)
(* A run of setup_rag.py.                                                  *)
(***************************************************************************)
\* The integers given to --max.
ArgValues == (0 - 2)..(MaxFiles + 1)

SetupInit ==
    /\ api_key \in BOOLEAN
    /\ qdrant_up \in BOOLEAN
    /\ SchedulerAtRest
    /\ QueryIdle
    /\ WorkerIdle
    /\ setup_pc = "start"
    /\ args \in [quick : BOOLEAN, max : {NoInt} \cup {PyInt(n) : n \in ArgValues}]
    /\ data_files \in 0..MaxFiles
    /\ max_transcripts = NoInt
    /\ setup_files = <<>>
    /\ setup_inserted = <<>>

\* main, lines 259-313: parse the arguments, determine max_transcripts,
\* then the checks of steps 1-3, each of which may end the run with 1.
SetupMain ==
    /\ setup_pc = "start"
    /\ max_transcripts' = DetermineMax(args)
    /\ setup_pc' = IF api_key /\ qdrant_up THEN "build" ELSE "exit1"
    /\ UNCHANGED <<schedulerVars, queryVars, workerVars, args, data_files, setup_files,
                   setup_inserted>>

\* build_rag, lines 151-209: the files to process.
SetupListFiles ==
    /\ setup_pc = "build"
    /\ setup_files' = FilesToProcess(data_files, max_transcripts)
    /\ setup_pc' = "inserting"
    /\ UNCHANGED <<schedulerVars, queryVars, workerVars, args, data_files,
                   max_transcripts, setup_inserted>>

\* lines 213-232: the next file is read and its insert returns.
SetupInsertReturns ==
    /\ setup_pc = "inserting"
    /\ Len(setup_inserted) < Len(setup_files)
    /\ setup_inserted' = Append(setup_inserted, setup_files[Len(setup_inserted) + 1])
    /\ UNCHANGED <<schedulerVars, queryVars, workerVars, setup_pc, args, data_files,
                   max_transcripts, setup_files>>

\* lines 217-231 and 319-323: reading the next file or inserting it raises;
\* nothing in build_rag catches it, main prints it and returns 1.
SetupInsertRaises ==
    /\ setup_pc = "inserting"
    /\ Len(setup_inserted) < Len(setup_files)
    /\ setup_pc' = "exit1"
    /\ UNCHANGED <<schedulerVars, queryVars, workerVars, args, data_files,
                   max_transcripts, setup_files, setup_inserted>>

\* lines 234-254 and 325-340: every file was inserted; test query, close,
\* return 0.
SetupDone ==
    /\ setup_pc = "inserting"
    /\ Len(setup_inserted) = Len(setup_files)
    /\ setup_pc' = "exit0"
    /\ UNCHANGED <<schedulerVars, queryVars, workerVars, args, data_files,
                   max_transcripts, setup_files, setup_inserted>>

SetupNext ==
    \/ SetupMain
    \/ SetupListFiles
    \/ SetupInsertReturns
    \/ SetupInsertRaises
    \/ SetupDone

SetupSpec == SetupInit /\ [][SetupNext]_vars

TypeOK ==
    /\ main_pc \in {"start", "no_api_key", "all_processed", "gathering", "reported"}
    /\ \A d \in Docs : pc[d] \in {"new", "waiting", "woken", "inserting",
                                  "locking", "locked", "done"}
    /\ sem_value \in 0..MaxLimit
    /\ lock \in 0..MaxDocs

\* One run of the script, from every configuration and status table.
RunSpec == Init /\ [][RunNext]_vars

(***************************************************************************)
(* One run under the scheduling asyncio gives it: the event loop runs      *)
(* every task that is ready, main resumes once gather is complete, and     *)
(* every insert call eventually returns or raises.                         *)
(***************************************************************************)
FairSpec ==
    /\ Init
    /\ [][RunNext]_vars
    /\ WF_vars(MainSetup)
    /\ WF_vars(MainReport)
    /\ \A d \in Docs :
          /\ WF_vars(TaskStart(d))
          /\ WF_vars(TaskAdmitted(d))
          /\ WF_vars(InsertReturns(d) \/ InsertRaises(d))
          /\ WF_vars(AcquireLock(d))
          /\ WF_vars(TaskSucceeds(d))

(***************************************************************************)
(* One run, over transcripts none of which is processed yet, in which the  *)
(* insert calls of one or two documents never return nor raise (the        *)
(* scheduler sets no timeout).  The scheduling is that of FairSpec.        *)
(***************************************************************************)
HangInit ==
    /\ hung \in {h \in SUBSET Docs : Cardinality(h) \in {1, 2}}
    /\ CONCURRENT_LIMIT \in 1..MaxLimit
    /\ MAX_TRANSCRIPTS \in 1..MaxCap
    /\ api_key \in BOOLEAN
    /\ qdrant_up = TRUE
    /\ status_readable = TRUE
    /\ doc_status = [d \in Docs |-> "none"]
    /\ run = "first"
    /\ first_run = [scheduled |-> {}, unprocessed |-> {}, returned |-> {}]
    /\ ProcessInit
    /\ QueryIdle
    /\ ScriptsIdle

HangSpec ==
    /\ HangInit
    /\ [][RunNext]_vars
    /\ WF_vars(MainSetup)
    /\ WF_vars(MainReport)
    /\ \A d \in Docs :
          /\ WF_vars(TaskStart(d))
          /\ WF_vars(TaskAdmitted(d))
          /\ WF_vars(InsertReturns(d) \/ InsertRaises(d))
          /\ WF_vars(AcquireLock(d))
          /\ WF_vars(TaskSucceeds(d))

(***************************************************************************)
(* The ingestion scheduler's properties.                                   *)
(***************************************************************************)
Reported == main_pc = "reported"
Succeeded(d) == task_result[d].kind = "tuple" /\ task_result[d].ok
ReturnedNormally == {d \in Scheduled : insert_outcome[d] = "returned"}

\* C1: at every instant of a run, the number of insert calls that have
\* started and have neither returned nor raised is at most CONCURRENT_LIMIT.
C1_ConcurrencyBound == Cardinality(InFlight) <= CONCURRENT_LIMIT

\* C1 witness: the limit is reached while another document waits for a slot.
C1_Witness ==
    /\ Cardinality(InFlight) = CONCURRENT_LIMIT
    /\ sem_waiters # <<>>

\* C2: insert is never invoked for a document whose doc_id is in the
\* Processed-Set snapshot the run read at its start.
C2_SnapshotNeverInserted ==
    /\ Scheduled \cap already_processed = {}
    /\ \A d \in Docs : insert_calls[d] > 0 => d \notin already_processed

\* C2 witness: a run with a non-empty snapshot has called insert.
C2_Witness ==
    /\ already_processed # {}
    /\ \E d \in Docs : insert_calls[d] > 0

\* C3: at the report there is one outcome per scheduled document, the
\* counts add up (scheduled = successful + failed), and failed is the number
\* of scheduled documents whose task did not succeed.
C3_Conservation ==
    Reported =>
        /\ Len(results) = total_to_process
        /\ total_to_process = Cardinality(Scheduled)
        /\ \A d \in Scheduled :
              Cardinality({k \in 1..Len(results) : results[k].name = d}) = 1
        /\ total_to_process = successful + failed
        /\ failed = Cardinality({d \in Scheduled : ~Succeeded(d)})

\* C3 witness: a report with successes and failures.
C3_Witness == Reported /\ successful > 0 /\ failed > 0

\* C4: the reported successful count is the number of scheduled documents
\* whose insert returned normally, whatever the limit and the interleaving:
\* all of them when every insert succeeds, none (failed = scheduled) when
\* every insert raises.
C4_CounterCorrectness ==
    Reported =>
        /\ successful = Cardinality(ReturnedNormally)
        /\ (ReturnedNormally = Scheduled => successful = total_to_process)
        /\ (ReturnedNormally = {} => successful = 0 /\ failed = total_to_process)

\* C4 witness: several documents, completing out of submission order, all
\* counted.
C4_Witness ==
    /\ Reported
    /\ total_to_process >= 2
    /\ successful = total_to_process
    /\ \E a, b \in Scheduled : a < b /\ current[b] < current[a]

\* C5: once all tasks have settled, processed_count is the successful count
\* computed from the outcomes, and no task with a failed outcome has
\* incremented it.
C5_ProgressCounter ==
    /\ (main_pc = "gathering" /\ Settled) => processed_count = CountSuccessful(Gathered)
    /\ Reported => processed_count = successful
    /\ \A d \in Docs : (pc[d] = "done" /\ ~Succeeded(d)) => current[d] = 0

\* C5 witness: a settled run with two increments and a failure.
C5_Witness == Reported /\ processed_count >= 2 /\ failed >= 1

\* C6: a failing task's exception is caught in the task and is not what
\* main receives; every sibling is still admitted and attempts its own
\* insert, and its outcome is that of its own insert.
C6_FailureIsolation ==
    \A d \in Scheduled :
        /\ pc[d] = "done" => task_result[d].kind = "tuple"
        /\ (Reported /\ \E e \in Scheduled \ {d} : ~Succeeded(e)) =>
              /\ read_failed[d] \/ insert_calls[d] = 1
              /\ Succeeded(d) <=> insert_outcome[d] = "returned"

\* C6 witness: with one slot, a document's insert raised and a sibling
\* submitted after it was then admitted and inserted successfully.
C6_Witness ==
    /\ Reported
    /\ \E e, d \in Scheduled :
          /\ insert_outcome[e] = "raised"
          /\ Succeeded(d)
          /\ e < d
          /\ CONCURRENT_LIMIT = 1

\* C7 (as claimed): in every run insert is invoked exactly once for each
\* scheduled document, whatever the outcome of its task.
C7_ExactlyOneInsert ==
    Reported => \A d \in Scheduled : insert_calls[d] = 1

\* C7 (amended): insert is invoked at most once per document in a run, never
\* for a document that is not scheduled, and exactly once for each scheduled
\* document whose transcript could be read.
C7_OneInsertUnlessReadFails ==
    /\ \A d \in Docs : insert_calls[d] <= 1
    /\ \A d \in Docs \ Scheduled : insert_calls[d] = 0
    /\ Reported => \A d \in Scheduled : insert_calls[d] = 1 <=> ~read_failed[d]

\* C7 witness: a report after one document could not be read and another
\* was inserted.
C7_Witness ==
    /\ Reported
    /\ \E d \in Scheduled : read_failed[d] /\ insert_calls[d] = 0
    /\ \E d \in Scheduled : ~read_failed[d] /\ insert_calls[d] = 1

\* C8: when every insert call eventually returns or raises, a run that has
\* scheduled at least one document eventually reaches the final report.
C8_AlwaysReports == (main_pc = "gathering") ~> Reported

\* C8 witness: the report of a run in which every document failed.
C8_Witness ==
    /\ Reported
    /\ total_to_process >= 2
    /\ failed = total_to_process

\* C9 (as claimed): the second of two runs over the same documents schedules
\* nothing.
C9_SecondRunSchedulesNothing ==
    (run = "second" /\ main_pc # "start") => total_to_process = 0

\* C9 (amended): the second run schedules no document whose insert returned
\* in the first run; and it schedules nothing when the first run scheduled
\* every unprocessed document (the cap did not cut the list) and every one
\* of its inserts returned.  Both provided the second run can read the
\* status table.
C9_SecondRunSkipsInserted ==
    (run = "second" /\ main_pc # "start" /\ status_readable) =>
        /\ Scheduled \cap first_run.returned = {}
        /\ (/\ first_run.scheduled = first_run.unprocessed
            /\ first_run.returned = first_run.scheduled) => total_to_process = 0

\* C9 witness: the first run inserted all it had to, and the second run
\* found nothing left.
C9_Witness ==
    /\ run = "second"
    /\ main_pc = "all_processed"
    /\ status_readable
    /\ Cardinality(first_run.scheduled) >= 2
    /\ first_run.scheduled = first_run.unprocessed
    /\ first_run.returned = first_run.scheduled

NothingScheduled ==
    /\ Scheduled = {}
    /\ \A d \in Docs : pc[d] = "new" /\ insert_calls[d] = 0

\* C16 (as claimed): when the API key is missing or the vector-index
\* service is not reachable at the start of a run, the run ends before any
\* scheduling: no task is launched and no insert is attempted.
C16_ConfigErrorIsFatal ==
    (~api_key \/ ~qdrant_up) => NothingScheduled

\* C16 (amended): a missing API key ends the run before any scheduling; an
\* unreachable vector-index service does not: the run goes on with the
\* fallback store.
C16_MissingKeyIsFatal ==
    /\ ~api_key => main_pc \in {"start", "no_api_key"} /\ NothingScheduled
    /\ (~qdrant_up /\ main_pc \notin {"start", "no_api_key"}) =>
          vector_storage = "NanoVectorDB"

\* C16 witness: a run with unprocessed transcripts has ended on the missing
\* API key.
C16_Witness ==
    /\ main_pc = "no_api_key"
    /\ \E d \in Docs : doc_status[d] = "none"
    /\ NothingScheduled

InsertRaised(d) == insert_outcome[d] = "raised" /\ pc[d] = "done"
\* The value a task returned holds the text: the tuple of lines 86 and 90
\* has a flag and a file name, and no other component.
CarriesErrorText(r, text) == "error" \in DOMAIN r /\ r.error = text

\* C17 (as claimed): when a document's insert raises, the value its task
\* returns to main is a failed outcome carrying the text of the exception.
C17_OutcomeCarriesErrorText ==
    \A d \in Docs :
        InsertRaised(d) =>
            /\ task_result[d].kind = "tuple" /\ ~task_result[d].ok
            /\ CarriesErrorText(task_result[d], InsertError)

\* C17 (amended): when a document's insert raises, the value its task
\* returns is the failed outcome (False, file name) and nothing more; the
\* text of the exception is in the [ERROR] line the task printed.
C17_FailedOutcomeErrorPrinted ==
    \A d \in Docs :
        InsertRaised(d) =>
            /\ task_result[d] = [kind |-> "tuple", ok |-> FALSE, name |-> d]
            /\ printed[d] = [name |-> d, error |-> InsertError]

\* C17 witness: the report of a run in which one insert raised and one
\* transcript could not be read.
C17_Witness ==
    /\ Reported
    /\ \E d \in Scheduled : InsertRaised(d) /\ printed[d].error = InsertError
    /\ \E d \in Scheduled : read_failed[d] /\ printed[d].error = ReadError

\* The insert calls that hang: made, and never to end.
HungCalls == {d \in hung : pc[d] = "inserting"}

\* C20 (as claimed): a hung insert call stalls only its own slot: every
\* other scheduled document is still eventually admitted and completes its
\* own insert attempt.
C20_HungInsertStallsOnlyItsSlot ==
    \A d \in Docs :
        (main_pc = "gathering" /\ d \in Scheduled /\ d \notin hung) ~> (pc[d] = "done")

\* C20 (amended): the same, provided the semaphore has more slots than
\* there are insert calls that hang.
C20_HungInsertLeavesOtherSlots ==
    \A d \in Docs :
        (/\ main_pc = "gathering" /\ d \in Scheduled /\ d \notin hung
         /\ CONCURRENT_LIMIT > Cardinality(hung)) ~> (pc[d] = "done")

\* C20 witness: with two slots, one insert call hangs, and the two other
\* documents of the batch, one of which had to wait for a slot, have
\* completed.
C20_Witness ==
    /\ main_pc = "gathering"
    /\ CONCURRENT_LIMIT = 2
    /\ HungCalls # {}
    /\ Cardinality(Scheduled) = 3
    /\ \A d \in Scheduled \ hung : pc[d] = "done" /\ insert_calls[d] = 1

(***************************************************************************)
(* The provenance resolver's properties.                                   *)
(***************************************************************************)
Resolved == q_pc = "resolved"
ChunkItems == metadata.chunks.items
Passages == 1..Len(chunks_info)

\* Chunk Index entry i stores exactly the text of passage k.
StoresPassage(i, k) ==
    /\ ChunkItems[i].isdict /\ ChunkItems[i].has_content /\ ChunkItems[i].content_isstr
    /\ ChunkItems[i].content = chunks_info[k].content

\* Chunk Index entry i satisfies containment with passage k.
ContainmentWith(i, k) ==
    /\ ChunkItems[i].isdict /\ ChunkItems[i].has_content /\ ChunkItems[i].content_isstr
    /\ \/ Contains(ChunkItems[i].content, chunks_info[k].content)
       \/ Contains(chunks_info[k].content, ChunkItems[i].content)

\* The names under which the side-tables record a chunk: for each document
\* of the Document Index listing it, the file name (else the doc_id); for
\* each document of the Status Index listing it, the stem of the file path
\* (else the doc_id).
Lists(e, chunk_id) ==
    e.isdict /\ e.has_chunks /\ e.chunks_iterable /\ chunk_id \in e.chunks
FullDocsListing(chunk_id) ==
    {j \in 1..Len(metadata.full_docs.items) : Lists(metadata.full_docs.items[j], chunk_id)}
DocStatusListing(chunk_id) ==
    {j \in 1..Len(metadata.doc_status.items) : Lists(metadata.doc_status.items[j], chunk_id)}
\* Exactly one document, over the two tables, lists the chunk, under name n.
MappedTo(chunk_id, n) ==
    /\ Cardinality(FullDocsListing(chunk_id)) + Cardinality(DocStatusListing(chunk_id)) = 1
    /\ \/ \E j \in FullDocsListing(chunk_id) :
             LET e == metadata.full_docs.items[j] IN
             n = IF e.has_file_name THEN e.file_name ELSE e.key
       \/ \E j \in DocStatusListing(chunk_id) :
             LET e == metadata.doc_status.items[j] IN
             n = IF e.file_path # <<>> THEN Stem(e.file_path) ELSE e.key

\* C10 (as claimed): a passage whose text is byte-identical to the stored
\* content of a Chunk Index entry that the side-tables map to a document
\* has that document as its source, whatever else the Chunk Index holds.
C10_ExactChunkGivesItsDocument ==
    Resolved =>
        \A k \in Passages : \A i \in 1..Len(ChunkItems) : \A n \in {DocA, DocB, FileA, Unknown} :
            (StoresPassage(i, k) /\ MappedTo(ChunkItems[i].key, n)) =>
                chunks_info[k].source = n

\* C10 (amended): ... has that document as its source, provided no earlier
\* entry of the Chunk Index, in iteration order, satisfies containment with
\* the section.
C10_FirstExactChunkGivesItsDocument ==
    Resolved =>
        \A k \in Passages : \A i \in 1..Len(ChunkItems) : \A n \in {DocA, DocB, FileA, Unknown} :
            (/\ StoresPassage(i, k)
             /\ MappedTo(ChunkItems[i].key, n)
             /\ \A h \in 1..(i - 1) : ~ContainmentWith(h, k)) =>
                /\ chunks_info[k].source = n
                /\ chunks_info[k].chunk_id = ChunkItems[i].key

\* C10 witness: the second entry of the Chunk Index stores the text of a
\* passage and is mapped to document B, the first entry stores another
\* text, and the passage has source B.
C10_Witness ==
    /\ Resolved
    /\ Len(ChunkItems) = 2
    /\ \E k \in Passages :
          /\ StoresPassage(2, k)
          /\ ~ContainmentWith(1, k)
          /\ MappedTo(2, DocB)
          /\ chunks_info[k].source = DocB

\* C11: a passage with which no Chunk Index entry satisfies containment has
\* source "Unknown" and no chunk_id; and when the three side-tables are
\* absent the call does not raise and every passage is "Unknown".
AllTablesAbsent ==
    ~metadata.chunks.present /\ ~metadata.full_docs.present /\ ~metadata.doc_status.present
C11_UnmatchedIsUnknown ==
    /\ Resolved =>
          \A k \in Passages :
              (\A i \in 1..Len(ChunkItems) : ~ContainmentWith(i, k)) =>
                  /\ chunks_info[k].source = Unknown
                  /\ chunks_info[k].chunk_id = NoChunk
    /\ AllTablesAbsent => q_pc # "raised"
    /\ (AllTablesAbsent /\ Resolved) =>
          \A k \in Passages :
              chunks_info[k].source = Unknown /\ chunks_info[k].chunk_id = NoChunk

\* C11 witness: a Chunk Index with entries, none of which satisfies
\* containment with a passage that was returned, while a Document Index
\* that could name a source is present.
C11_Witness ==
    /\ Resolved
    /\ Len(ChunkItems) >= 1
    /\ metadata.full_docs.present
    /\ \E k \in Passages :
          /\ \A i \in 1..Len(ChunkItems) : ~ContainmentWith(i, k)
          /\ chunks_info[k].source = Unknown

\* C11 witness for the absent tables: two passages returned with no table.
C11_WitnessAbsent ==
    /\ Resolved
    /\ AllTablesAbsent
    /\ Len(chunks_info) = 2

\* The sections of the context that are long enough once trimmed, trimmed,
\* in the order of the context.
Sections == Split(context, Delimiter)
LongEnough(text) == text # <<>> /\ Len(text) >= MIN_SECTION_LEN
KeptSections ==
    SelectSeq([k \in 1..Len(Sections) |-> Strip(Sections[k])], LongEnough)
PassageTexts == [k \in Passages |-> chunks_info[k].content]

\* C13 (as claimed): a call of extract_chunk_sources gives one passage for
\* each section whose trimmed text has at least MIN_SECTION_LEN characters,
\* none for the others, in the order of the sections.
C13_OnePassagePerSection ==
    q_pc \in {"resolved", "raised"} => PassageTexts = KeptSections

\* C13, for the calls that return: the same, when the call did not raise.
C13_OnePassagePerSectionReturned ==
    Resolved => PassageTexts = KeptSections

\* C14 (as claimed): whatever the side-tables hold, entries of unexpected
\* type or shape included, extract_chunk_sources does not raise.
C14_ResolutionNeverRaises == q_pc # "raised"

(***************************************************************************)
(* query_with_detailed_sources: the properties of a whole call.            *)
(***************************************************************************)
RetrievalFailed == "Error retrieving sources" \in q_out
AnswerAttempted == "answer" \in q_out \/ "Error generating answer" \in q_out

\* C15 (as claimed): when the context-only call or the resolution of its
\* result raises, the error is printed for that query and the call then
\* goes on to its normal end: the answer step is attempted, the RAG is
\* closed, and no exception leaves the function.
C15_RetrievalFailureSurfaced ==
    RetrievalFailed =>
        /\ q_pc \in {"step2", "summary", "returned"}
        /\ q_pc = "returned" => AnswerAttempted /\ q_rag_closed

(***************************************************************************)
(* The Streamlit search's properties.                                      *)
(***************************************************************************)
QueryReturned == ui_pc = "done" /\ ui_shown \in {"error", "answer"}
WorkerFailed == worker.kind \in {"raises", "dies", "hangs", "prints"}

\* C18 (as claimed): for every query sent through query_rag_sync, main
\* receives either a response and no error, or an error message that is not
\* empty and no response; and a query whose worker failed (exception, exit
\* status, timeout, unparsable output) is not displayed as an answer.
C18_ResponseOrError ==
    QueryReturned =>
        /\ \/ ~ui_result.response.none /\ ui_result.error.none
           \/ ui_result.response.none /\ Truthy(ui_result.error)
        /\ WorkerFailed => ui_shown = "error"

(***************************************************************************)
(* setup_rag.py's properties.                                              *)
(***************************************************************************)
\* The first n files of the sorted list (none when n is not positive).
FirstFiles(n) == {k \in 1..data_files : k <= n}

\* C19 (as claimed): with --max N, for every integer N, only files among
\* the first N of the sorted list are inserted, so at most N insert calls
\* return; with --quick, only files among the first QUICK_LIMIT.
C19_MaxLimitsInserts ==
    /\ (~args.max.none /\ ~args.quick) =>
          /\ Range(setup_inserted) \subseteq FirstFiles(args.max.n)
          /\ Len(setup_inserted) <= Cardinality(FirstFiles(args.max.n))
    /\ args.quick => Range(setup_inserted) \subseteq FirstFiles(QUICK_LIMIT)

\* C19, for the positive N: the same, when N is at least 1.
C19_PositiveMaxLimitsInserts ==
    /\ (~args.max.none /\ ~args.quick /\ args.max.n >= 1) =>
          /\ Range(setup_inserted) \subseteq FirstFiles(args.max.n)
          /\ Len(setup_inserted) <= args.max.n
    /\ args.quick => Range(setup_inserted) \subseteq FirstFiles(QUICK_LIMIT)

(***************************************************************************)
(* The grouping's properties.                                              *)
(***************************************************************************)
Grouped == q_pc = "grouped"
Groups == 1..Len(sources_map)
\* The position of the first passage with the source of group g.
FirstOccurrence(g) ==
    CHOOSE k \in Passages :
        /\ chunks_info[k].source = sources_map[g].source
        /\ \A j \in 1..(k - 1) : chunks_info[j].source # sources_map[g].source
RECURSIVE SumOfSizes(_)
SumOfSizes(groups) ==
    IF groups = <<>> THEN 0 ELSE Len(Head(groups).chunks) + SumOfSizes(Tail(groups))

\* C12: the groups are listed in the order in which their sources first
\* occur among the passages, one group per source; each group holds exactly
\* the passages of its source in their original order; and the sizes of the
\* groups add up to the number of passages.
C12_GroupingOrder ==
    Grouped =>
        /\ {sources_map[g].source : g \in Groups} = {chunks_info[k].source : k \in Passages}
        /\ \A g, h \in Groups : g # h => sources_map[g].source # sources_map[h].source
        /\ \A g, h \in Groups : g < h => FirstOccurrence(g) < FirstOccurrence(h)
        /\ \A g \in Groups :
              sources_map[g].chunks =
                  SelectSeq(chunks_info, LAMBDA c : c.source = sources_map[g].source)
        /\ SumOfSizes(sources_map) = Len(chunks_info)

\* C12 witness: passages of sources A, B, A, with different texts for the
\* two of A, grouped as A (both, in their order) then B.
C12_Witness ==
    /\ Grouped
    /\ Len(chunks_info) = 3
    /\ chunks_info[1].source = DocA /\ chunks_info[2].source = DocB
    /\ chunks_info[3].source = DocA
    /\ chunks_info[1].content # chunks_info[3].content
    /\ Len(sources_map) = 2
    /\ sources_map[1] = [source |-> DocA, chunks |-> <<chunks_info[1], chunks_info[3]>>]
    /\ sources_map[2] = [source |-> DocB, chunks |-> <<chunks_info[2]>>]

(***************************************************************************)
(* Admission order, selection, the counter lock, the report and the slots. *)
(***************************************************************************)
\* C21: tasks enter the body of the concurrency gate in submission order: at
\* every instant the documents admitted so far are, in the order of their
\* admission, the first documents of the scheduled sequence, so a document
\* is never admitted before one scheduled ahead of it.
C21_FifoAdmission ==
    /\ Len(admitted) <= Len(transcript_files)
    /\ \A k \in 1..Len(admitted) : admitted[k] = transcript_files[k]

\* C21 witness: with fewer slots than documents, three documents were
\* admitted, the later ones after waiting in the queue, while a task that
\* was admitted earlier is still inserting.
C21_Witness ==
    /\ Len(admitted) >= 3
    /\ CONCURRENT_LIMIT = 2
    /\ pc[admitted[2]] = "inserting"
    /\ pc[admitted[3]] = "inserting"

Selected == main_pc \in {"all_processed", "gathering", "reported"}
Unprocessed == {d \in Docs : d \notin already_processed}
Min(a, b) == IF a < b THEN a ELSE b

\* C22: the scheduled sequence is the input sequence without the documents
\* of the Processed-Set, in the original order, cut to its first
\* MAX_TRANSCRIPTS entries; the scheduled count is the smaller of
\* MAX_TRANSCRIPTS and the number of unprocessed documents.
C22_ScheduledSequence ==
    Selected =>
        /\ \A j, k \in 1..Len(transcript_files) :
              j < k => transcript_files[j] < transcript_files[k]
        /\ Scheduled \subseteq Unprocessed
        /\ \A d \in Unprocessed \ Scheduled : \A e \in Scheduled : e < d
        /\ Len(transcript_files) = Min(MAX_TRANSCRIPTS, Cardinality(Unprocessed))
        /\ total_to_process = Min(MAX_TRANSCRIPTS, Cardinality(Unprocessed))

\* C22 witness: a processed document lies between two scheduled ones, and
\* the cap left an unprocessed document out.
C22_Witness ==
    /\ main_pc = "gathering"
    /\ \E d \in already_processed : \E e, f \in Scheduled : e < d /\ d < f
    /\ Unprocessed \ Scheduled # {}
    /\ total_to_process = MAX_TRANSCRIPTS

InCriticalSection == {d \in Docs : pc[d] = "locked"}
ProgressNumbers == {current[d] : d \in {e \in Scheduled : Succeeded(e)}}

\* C23: the counter changes only in a step of the task that holds the lock,
\* which increments it and reads it for its report in that same step; at
\* most one task is in the critical section at a time; and at the report
\* the progress numbers of the successful tasks are pairwise distinct and
\* are exactly 1..successful.
C23_CounterUnderLock ==
    /\ Cardinality(InCriticalSection) <= 1
    /\ InCriticalSection = IF lock = 0 THEN {} ELSE {lock}
    /\ \A d, e \in Scheduled :
          (Succeeded(d) /\ Succeeded(e) /\ d # e) => current[d] # current[e]
    /\ \A d \in Scheduled : Succeeded(d) => current[d] \in 1..processed_count
    /\ Reported => ProgressNumbers = 1..successful

\* C23 (step form): a step that changes the counter is taken by the holder
\* of the lock, adds one, reports the new value and releases the lock.
C23_MutationInsideScope ==
    [][processed_count' # processed_count /\ main_pc' = "gathering" =>
          /\ lock # 0 /\ pc[lock] = "locked"
          /\ processed_count' = processed_count + 1
          /\ current'[lock] = processed_count'
          /\ lock' = 0]_vars

\* C23 witness: a second task waits for the lock while a first holds it.
C23_Witness ==
    /\ lock # 0
    /\ \E d \in Docs : pc[d] = "locking"

\* C23 witness of the report: three successful tasks, which reported their
\* progress out of submission order.
C23_WitnessReport ==
    /\ Reported
    /\ successful = 3
    /\ \E d, e \in Scheduled : d < e /\ Succeeded(d) /\ Succeeded(e)
                               /\ current[d] > current[e]

\* C24: the statistics are computed and the RAG system is closed only after
\* every launched task has returned: at the report, and whenever the system
\* is closed, no insert call is in flight, no scheduled document waits for
\* a slot or for the lock, and every scheduled document has an outcome.
C24_ReportAfterAllSettled ==
    (Reported \/ rag_closed) =>
        /\ InFlight = {}
        /\ sem_waiters = <<>>
        /\ \A d \in Scheduled : pc[d] = "done" /\ task_result[d].kind # "none"
        /\ \A d \in Docs : insert_outcome[d] # "inflight"
        /\ Len(results) = Len(transcript_files)

\* C24 witness: a report of a run in which documents waited for a slot.
C24_Witness ==
    /\ Reported
    /\ rag_closed
    /\ total_to_process > CONCURRENT_LIMIT
    /\ \A d \in Scheduled : insert_calls[d] = 1

\* C25: when nothing is left to process the run returns at once: the system
\* is closed, no task is launched, insert is never called and the report is
\* never reached; and whenever the report is reached the scheduled count,
\* by which the average divides, is not zero.
C25_EmptyRunReturnsAtOnce ==
    /\ (Selected /\ transcript_files = <<>>) =>
           /\ main_pc = "all_processed"
           /\ rag_closed
           /\ NothingScheduled
           /\ results = <<>> /\ successful = 0 /\ failed = 0
    /\ main_pc = "all_processed" => transcript_files = <<>>
    /\ Reported => total_to_process > 0

\* C25 witness: every input document is in the Processed-Set and the run has
\* returned.
C25_Witness ==
    /\ main_pc = "all_processed"
    /\ already_processed = Docs
    /\ rag_closed

(***************************************************************************)
(* The resolver: the entry that wins and the side-table that names it.     *)
(***************************************************************************)
\* The Chunk Index entries satisfying containment with passage k, and the
\* first of them in iteration order.
Containing(k) == {i \in 1..Len(ChunkItems) : ContainmentWith(i, k)}
FirstContaining(k) == CHOOSE i \in Containing(k) : \A j \in Containing(k) : i <= j

\* C26: an entry matches a section when its stored content is contained in
\* the section or contains it; the chunk_id of a passage is the key of the
\* first entry, in iteration order, that matches, whatever the lengths of
\* the matches and whatever matches later; a passage that no entry matches
\* has no chunk_id.
C26_FirstMatchWins ==
    Resolved =>
        \A k \in Passages :
            chunks_info[k].chunk_id =
                IF Containing(k) = {} THEN NoChunk
                ELSE ChunkItems[FirstContaining(k)].key

\* C26 witness: the first entry contains the passage without being equal to
\* it, the second stores exactly the passage, and the first gave the
\* chunk_id.
C26_Witness ==
    /\ Resolved
    /\ Len(ChunkItems) = 2
    /\ \E k \in Passages :
          /\ ContainmentWith(1, k) /\ ~StoresPassage(1, k)
          /\ StoresPassage(2, k)
          /\ chunks_info[k].chunk_id = ChunkItems[1].key

\* The name the first listing document of each side-table gives the chunk.
FirstListing(listing) == CHOOSE j \in listing : \A h \in listing : j <= h
FullDocsName(chunk_id) ==
    LET e == metadata.full_docs.items[FirstListing(FullDocsListing(chunk_id))]
    IN  IF e.has_file_name THEN e.file_name ELSE e.key
DocStatusName(chunk_id) ==
    LET e == metadata.doc_status.items[FirstListing(DocStatusListing(chunk_id))]
    IN  IF e.file_path # <<>> THEN Stem(e.file_path) ELSE e.key

\* C27 (as claimed): the source of a matched passage is taken from the
\* Document Index when a document there lists the chunk (its file name,
\* else its doc_id); the Status Index is used only when no document of the
\* Document Index lists it, and gives the stem of the file path, or the
\* doc_id when the path is empty.
C27_StatusIndexOnlyWhenNoDocument ==
    Resolved =>
        \A k \in Passages :
            LET chunk_id == chunks_info[k].chunk_id IN
            chunk_id # NoChunk =>
                chunks_info[k].source =
                    IF FullDocsListing(chunk_id) # {} THEN FullDocsName(chunk_id)
                    ELSE IF DocStatusListing(chunk_id) # {} THEN DocStatusName(chunk_id)
                    ELSE Unknown

\* C30: when the first matching entry is listed by no document of either
\* side-table the scan still stops there: the passage has that entry's key
\* as chunk_id and source "Unknown", even when a later entry matches too
\* and is listed.
C30_UnresolvedMatchEndsScan ==
    Resolved =>
        \A k \in Passages :
            (/\ Containing(k) # {}
             /\ FullDocsListing(ChunkItems[FirstContaining(k)].key) = {}
             /\ DocStatusListing(ChunkItems[FirstContaining(k)].key) = {}) =>
                /\ chunks_info[k].chunk_id = ChunkItems[FirstContaining(k)].key
                /\ chunks_info[k].chunk_id # NoChunk
                /\ chunks_info[k].source = Unknown

\* C30 witness: both entries match the passage, no side-table lists the
\* first, the Status Index maps the second to document B, and the passage
\* has the first entry's key and source "Unknown".
C30_Witness ==
    /\ Resolved
    /\ Len(ChunkItems) = 2
    /\ \E k \in Passages :
          /\ Containing(k) = {1, 2}
          /\ FullDocsListing(1) = {} /\ DocStatusListing(1) = {}
          /\ MappedTo(2, DocB)
          /\ chunks_info[k].chunk_id = 1
          /\ chunks_info[k].source = Unknown

(***************************************************************************)
(* The Processed-Set and the release of the slots.                         *)
(***************************************************************************)
\* C28 (as claimed): the Processed-Set a run reads holds only documents the
\* status table records as completed, so a document recorded as failed is
\* not in it and is scheduled again when the cap allows; a status table
\* that cannot be read gives the empty set.
C28_ProcessedSetOnlyCompleted ==
    Selected =>
        /\ \A d \in already_processed : doc_status[d] = "processed"
        /\ \A d \in Docs :
              (doc_status[d] = "failed" /\ insert_calls[d] = 0
               /\ Len(transcript_files) < MAX_TRANSCRIPTS) => d \in Scheduled
        /\ ~status_readable => already_processed = {}

\* The tasks inside the body of `async with semaphore`, and those handed a
\* slot that have not resumed yet.
SlotHolders == {d \in Scheduled : pc[d] \in {"inserting", "locking", "locked"}}
SlotOwed == {d \in Scheduled : pc[d] = "woken"}
Gathering == main_pc \in {"gathering", "reported"}
\* Some task can take a step.
Runnable == ENABLED (\E d \in Docs : TaskStep(d))

\* C29: every slot taken is given back on every exit of the body: the free
\* slots and the tasks inside the body always add up to CONCURRENT_LIMIT,
\* and a task that has returned holds none.  The counter lock is held only
\* by a task that is inside the body and whose insert has returned, never
\* by one whose insert is in flight.  Once all tasks have returned every
\* slot and the lock are free; and while a task has not returned, some task
\* can take a step: taking the slot, then the lock, never blocks them all.
C29_SlotsAndLockReleased ==
    /\ Gathering =>
           sem_value + Cardinality(SlotHolders) + Cardinality(SlotOwed)
               = CONCURRENT_LIMIT
    /\ lock # 0 =>
           /\ lock \in SlotHolders
           /\ pc[lock] = "locked"
           /\ insert_outcome[lock] = "returned"
    /\ \A d \in InFlight : lock # d
    /\ (Gathering /\ Settled) =>
           /\ sem_value = CONCURRENT_LIMIT
           /\ lock = 0
           /\ sem_waiters = <<>>
    /\ (main_pc = "gathering" /\ ~Settled) => Runnable

\* C29 witness: a run ended with a success, a read failure and an insert
\* failure, after a task had waited for a slot.
C29_Witness ==
    /\ Reported
    /\ sem_value = CONCURRENT_LIMIT
    /\ total_to_process > CONCURRENT_LIMIT
    /\ \E d, e, f \in Scheduled :
          /\ Succeeded(d)
          /\ read_failed[e]
          /\ insert_outcome[f] = "raised"
====
